---- MODULE Spec2Model ----
(***************************************************************************)
(* Model of tools/compile_benchmark_files.py: the merge of per-run         *)
(* benchmark JSON files into one document whose records all carry the      *)
(* combined profile.                                                       *)
(*                                                                         *)
(* JSON / Python values are records of one uniform shape                   *)
(*     [t, n, s, l, k]                                                     *)
(* t is the type tag, n the numeric payload (int, float, bool, or the      *)
(* address of a "ref"), s the text of a str, l the elements of a list or   *)
(* the values of a dict, k the keys of a dict in insertion order.          *)
(* Floats are the integral ones (1.0 is JFloat(1)).                         *)
(* Dicts and lists that the program creates or writes to live in `heap`    *)
(* and are held through "ref" values, so that aliasing is visible.         *)
(***************************************************************************)
EXTENDS Integers, Sequences, FiniteSets, TLC

VARIABLES pc, run, fs, input_dir, output, heap, files, fi, data, b,
          benchmarks, measured_rates, measured_concurrencies, streams,
          strategy_types, ai, measured_rates_u, measured_concurrencies_u,
          streams_u, strategy_types_u, combined_profile, out_benchmarks, oi,
          combined, exit_code

vars == <<pc, run, fs, input_dir, output, heap, files, fi, data, b,
          benchmarks, measured_rates, measured_concurrencies, streams,
          strategy_types, ai, measured_rates_u, measured_concurrencies_u,
          streams_u, strategy_types_u, combined_profile, out_benchmarks, oi,
          combined, exit_code>>

\* ------------------------------------------------------------ bounds ----
MaxFiles == 2

MaxRuns == 2

\* ------------------------------------------------------------ values ----
V(t, n, s, l, k) == [t |-> t, n |-> n, s |-> s, l |-> l, k |-> k]

JNull == V("null", 0, "", <<>>, <<>>)

JBool(x) == V("bool", IF x THEN 1 ELSE 0, "", <<>>, <<>>)

JInt(i) == V("int", i, "", <<>>, <<>>)

JFloat(i) == V("float", i, "", <<>>, <<>>)

JStr(x) == V("str", 0, x, <<>>, <<>>)

JList(l) == V("list", 0, "", l, <<>>)

JDict(k, l) == V("obj", 0, "", l, k)

Ref(a) == V("ref", a, "", <<>>, <<>>)

\* the text of a file that json.load rejects
Unparseable == V("unparseable", 0, "", <<>>, <<>>)

EmptyDict == JDict(<<>>, <<>>)

IsDict(v) == v.t = "obj"

IsList(v) == v.t = "list"

IsNone(v) == v.t = "null"

IsRef(v) == v.t = "ref"

\* isinstance(x, (float, int, str)); bool is a subclass of int
IsNumber(v) == v.t \in {"int", "float", "bool"}

\* ------------------------------------------------- dict operations ------
HasKey(o, key) == \E i \in 1..Len(o.k) : o.k[i] = key

KeyIndex(o, key) == CHOOSE i \in 1..Len(o.k) : o.k[i] = key

\* o.get(key, default)
DictGet(o, key, default) == IF HasKey(o, key) THEN o.l[KeyIndex(o, key)] ELSE default

\* o[key] = val : an existing key keeps its position, a new key goes last
DictSet(o, key, val) ==
  IF HasKey(o, key)
    THEN [o EXCEPT !.l[KeyIndex(o, key)] = val]
    ELSE [o EXCEPT !.k = Append(@, key), !.l = Append(@, val)]

\* ---------------------------------------------------------- strings -----
\* Python compares str by code point; this is that order on the strings
\* the model uses.
StrOrder ==
  << ".h", "__combined_from", "__source_file", "a", "args", "b",
     "benchmarks", "c", "completed_strategies", "concurrent",
     "constant", "d", "m", "measured_concurrencies", "measured_rates",
     "null", "profile", "q", "r1", "report", "run_id", "s", "strategy",
     "strategy_index", "strategy_types", "streams", "t", "type_", "v", "w",
     "x", "y", "z" >>

StrRank(x) == CHOOSE i \in 1..Len(StrOrder) : StrOrder[i] = x

StrLess(x, y) == StrRank(x) < StrRank(y)

\* ------------------------------------------------------- json.dumps -----
RECURSIVE InsertKey(_, _)
\* positions of a dict's entries, ascending by key
InsertKey(sortedIdx, pr) ==
  IF sortedIdx = <<>> THEN <<pr>>
  ELSE IF StrLess(pr[1], Head(sortedIdx)[1])
         THEN <<pr>> \o sortedIdx
         ELSE <<Head(sortedIdx)>> \o InsertKey(Tail(sortedIdx), pr)

RECURSIVE SortedItemsFrom(_, _)
SortedItemsFrom(o, i) ==
  IF i > Len(o.k) THEN <<>>
  ELSE InsertKey(SortedItemsFrom(o, i + 1), <<o.k[i], o.l[i]>>)

\* sorted(o.items()) as json.dumps(sort_keys=True) does
SortedItems(o) == SortedItemsFrom(o, 1)

RECURSIVE dumps(_)
RECURSIVE JoinValues(_)
RECURSIVE JoinItems(_)
JoinValues(l) ==
  IF l = <<>> THEN ""
  ELSE IF Len(l) = 1 THEN dumps(l[1])
  ELSE dumps(l[1]) \o ", " \o JoinValues(Tail(l))

JoinItems(items) ==
  IF items = <<>> THEN ""
  ELSE IF Len(items) = 1 THEN "\"" \o items[1][1] \o "\": " \o dumps(items[1][2])
  ELSE "\"" \o items[1][1] \o "\": " \o dumps(items[1][2]) \o ", " \o JoinItems(Tail(items))

\* json.dumps(x, sort_keys=True)
dumps(x) ==
  CASE x.t = "null" -> "null"
    [] x.t = "bool" -> IF x.n = 1 THEN "true" ELSE "false"
    [] x.t = "int" -> ToString(x.n)
    [] x.t = "float" -> ToString(x.n) \o ".0"
    [] x.t = "str" -> "\"" \o x.s \o "\""
    [] x.t = "list" -> "[" \o JoinValues(x.l) \o "]"
    [] x.t = "obj" -> "{" \o JoinItems(SortedItems(x)) \o "}"

\* ------------------------------------------------------------- uniq -----
\* a member of `seen`: a number, or a str (the element itself or its dump)
NumKey(n) == [kind |-> "num", n |-> n, s |-> ""]

StrKey(s) == [kind |-> "str", n |-> 0, s |-> s]

UniqKey(x) ==
  IF IsNumber(x) THEN NumKey(x.n)
  ELSE IF x.t = "str" THEN StrKey(x.s)
  ELSE StrKey(dumps(x))

RECURSIVE UniqLoop(_, _, _, _)
UniqLoop(seq, i, seen, out) ==
  IF i > Len(seq) THEN out
  ELSE IF UniqKey(seq[i]) \in seen
         THEN UniqLoop(seq, i + 1, seen, out)
         ELSE UniqLoop(seq, i + 1, seen \cup {UniqKey(seq[i])}, Append(out, seq[i]))

uniq(seq) == UniqLoop(seq, 1, {}, <<>>)

\* ----------------------------------------------------------- sorted -----
\* the values Python orders among themselves: numbers, and strs
SortClass(x) == IF IsNumber(x) THEN "num" ELSE IF x.t = "str" THEN "str" ELSE "none"

PyLess(x, y) == IF IsNumber(x) THEN x.n < y.n ELSE StrLess(x.s, y.s)

\* sorted(seq) raises TypeError: two elements Python cannot order.
\* (Lists as stream values are outside the inputs of this model.)
SortRaises(seq) ==
  /\ Len(seq) > 1
  /\ ~ \E c \in {"num", "str"} : \A i \in 1..Len(seq) : SortClass(seq[i]) = c

RECURSIVE InsertSorted(_, _)
InsertSorted(sortedSeq, x) ==
  IF sortedSeq = <<>> THEN <<x>>
  ELSE IF PyLess(x, Head(sortedSeq))
         THEN <<x>> \o sortedSeq
         ELSE <<Head(sortedSeq)>> \o InsertSorted(Tail(sortedSeq), x)

RECURSIVE SortedFrom(_, _)
SortedFrom(seq, i) ==
  IF i = 0 THEN <<>> ELSE InsertSorted(SortedFrom(seq, i - 1), seq[i])

\* sorted(seq) when it does not raise (stable, ascending)
sorted(seq) == SortedFrom(seq, Len(seq))

\* ------------------------------------------- load_first_benchmark -------
\* the decision taken with the `type_` test ahead of the `benchmarks` test
load_type_first(d) ==
  IF d.t = "unparseable" THEN JNull
  ELSE IF IsDict(d) /\ HasKey(d, "type_") THEN d
  ELSE IF IsDict(d) /\ HasKey(d, "benchmarks")
          /\ IsList(DictGet(d, "benchmarks", JNull))
          /\ DictGet(d, "benchmarks", JNull).l # <<>>
    THEN DictGet(d, "benchmarks", JNull).l[1]
  ELSE IF IsList(d) /\ d.l # <<>> THEN d.l[1]
  ELSE JNull

load_first_benchmark(d) ==
  IF d.t = "unparseable" THEN JNull
  ELSE IF IsDict(d) /\ HasKey(d, "benchmarks")
          /\ IsList(DictGet(d, "benchmarks", JNull))
          /\ DictGet(d, "benchmarks", JNull).l # <<>>
    THEN DictGet(d, "benchmarks", JNull).l[1]
  ELSE IF IsDict(d) /\ HasKey(d, "type_") THEN d
  ELSE IF IsList(d) /\ d.l # <<>> THEN d.l[1]
  ELSE JNull

\* ------------------------------------------------------ the inputs ------
\* benchmark records found in the input files
RecX ==
  JDict(<<"type_", "args", "run_id">>,
        <<JStr("x"),
          JDict(<<"profile", "strategy", "strategy_index">>,
                <<JDict(<<"measured_rates", "measured_concurrencies", "strategy_types">>,
                        <<JList(<<JInt(1), JInt(2)>>), JList(<<JFloat(1)>>),
                          JList(<<JStr("concurrent")>>)>>),
                  JDict(<<"type_", "streams">>, <<JStr("concurrent"), JInt(5)>>),
                  JInt(0)>>),
          JStr("r1")>>)

RecY ==
  JDict(<<"type_", "args">>,
        <<JStr("y"),
          JDict(<<"strategy_index", "profile", "strategy">>,
                <<JInt(1),
                  JDict(<<"measured_rates", "measured_concurrencies", "streams">>,
                        <<JList(<<JInt(2), JInt(3)>>), JList(<<JInt(1)>>),
                          JList(<<JInt(7), JInt(5)>>)>>),
                  JDict(<<"streams">>, <<JInt(9)>>)>>)>>)

\* profile.streams is an empty list, the strategy has a stream count
RecZ ==
  JDict(<<"type_", "args">>,
        <<JStr("z"),
          JDict(<<"profile", "strategy">>,
                <<JDict(<<"streams">>, <<JList(<<>>)>>),
                  JDict(<<"streams">>, <<JInt(5)>>)>>)>>)

\* no args at all
RecW == JDict(<<"type_">>, <<JStr("w")>>)

\* values that collide or coincide under deduplication; unorderable streams
RecQ ==
  JDict(<<"args">>,
        <<JDict(<<"profile">>,
                <<JDict(<<"measured_rates", "strategy_types", "streams">>,
                        <<JList(<<JStr("null"), JNull, JList(<<JInt(1)>>),
                                  JList(<<JFloat(1)>>), JBool(TRUE), JInt(1)>>),
                          JList(<<JDict(<<"a", "b">>, <<JInt(1), JInt(2)>>),
                                  JDict(<<"b", "a">>, <<JInt(2), JInt(1)>>),
                                  JStr("s")>>),
                          JList(<<JStr("b"), JInt(3)>>)>>)>>)>>)

\* bare scalars in place of the lists
RecS ==
  JDict(<<"type_", "args">>,
        <<JStr("s"),
          JDict(<<"profile">>,
                <<JDict(<<"measured_rates", "measured_concurrencies",
                          "strategy_types", "streams">>,
                        <<JInt(2), JInt(4), JStr("constant"), JStr("a")>>)>>)>>)

\* args is not a mapping
RecV == JDict(<<"type_", "args">>, <<JStr("v"), JInt(5)>>)

\* the JSON documents a file may hold
Docs ==
  { Unparseable,
    JDict(<<"benchmarks", "type_">>, <<JList(<<RecX, RecY>>), JStr("report")>>),
    RecY,
    JDict(<<"type_", "benchmarks">>, <<JStr("t"), JList(<<>>)>>),
    JDict(<<"benchmarks", "type_">>, <<JInt(5), JStr("t")>>),
    JDict(<<"benchmarks", "type_">>, <<JList(<<JNull>>), JStr("q")>>),
    JDict(<<"benchmarks">>, <<JList(<<EmptyDict>>)>>),
    JList(<<RecZ, RecX>>),
    JList(<<RecQ>>),
    JList(<<>>),
    JList(<<JInt(5)>>),
    EmptyDict,
    JInt(5),
    RecW,
    RecS,
    RecV }

\* file names, as sequences of one-character strings
Names == { <<".", "h">>, <<"a">>, <<"b">> }

\* what a name of the directory is: a regular file with its content, or a
\* sub-directory
EntryKinds == { k \in [isfile : BOOLEAN, doc : Docs] : ~k.isfile => k.doc = Unparseable }

Directories ==
  UNION { { { [name |-> n, isfile |-> f[n].isfile, doc |-> f[n].doc] : n \in S }
            : f \in [S -> EntryKinds] }
          : S \in { T \in SUBSET Names : Cardinality(T) <= MaxFiles } }

\* paths are sequences of one-character strings
InputDirs == { <<"r", "/", "d">>, <<"r", "/", "d", "/">> }

Outputs == { <<"o">>, <<"i", "/", "o">> }

Absent == V("absent", 0, "", <<>>, <<>>)

\* ------------------------------------------------------------ paths -----
RECURSIVE rstrip(_)
\* p.rstrip('/')
rstrip(p) ==
  IF p # <<>> /\ p[Len(p)] = "/" THEN rstrip(SubSeq(p, 1, Len(p) - 1)) ELSE p

\* the index of the last '/' of p, 0 if none
LastSlash(p) ==
  IF \E i \in 1..Len(p) : p[i] = "/"
    THEN CHOOSE i \in 1..Len(p) : p[i] = "/" /\ \A j \in (i + 1)..Len(p) : p[j] # "/"
    ELSE 0

RECURSIVE JoinChars(_)
JoinChars(p) == IF p = <<>> THEN "" ELSE Head(p) \o JoinChars(Tail(p))

\* os.path.join(p, name)
join(p, name) ==
  IF p # <<>> /\ p[Len(p)] = "/" THEN p \o name ELSE p \o <<"/">> \o name

\* os.path.basename(p)
basename(p) == JoinChars(SubSeq(p, LastSlash(p) + 1, Len(p)))

\* os.path.dirname(p), for the relative paths of this model
dirname(p) == JoinChars(rstrip(SubSeq(p, 1, LastSlash(p))))

\* ------------------------------------------------------------- heap -----
Deref(h, v) == IF IsRef(v) THEN h[v.n] ELSE v

RECURSIVE Resolve(_, _)
\* the value v denotes, every reference replaced by the object it points to
Resolve(h, v) ==
  IF IsRef(v) THEN Resolve(h, h[v.n])
  ELSE IF v.t \in {"list", "obj"}
    THEN [v EXCEPT !.l = [i \in 1..Len(v.l) |-> Resolve(h, v.l[i])]]
  ELSE v

RECURSIVE Reach(_, _)
\* the addresses of the heap objects reachable from v
Reach(h, v) ==
  IF IsRef(v) THEN {v.n} \cup Reach(h, h[v.n])
  ELSE UNION { Reach(h, v.l[i]) : i \in 1..Len(v.l) }

\* ----------------------------------------------------------- Init -------
Init ==
  /\ pc = "main"
  /\ run = 1
  /\ \E isdir \in BOOLEAN, d \in Directories, ode \in BOOLEAN :
       /\ ~isdir => d = {}
       /\ fs = [isdir |-> isdir, entries |-> d, out_dir_exists |-> ode,
                out_file |-> Absent, ops |-> <<>>]
  /\ input_dir \in InputDirs
  /\ output \in Outputs
  /\ dirname(output) = "" => fs.out_dir_exists
  /\ heap = <<>>
  /\ files = <<>>
  /\ fi = 0
  /\ data = JNull
  /\ b = JNull
  /\ benchmarks = <<>>
  /\ measured_rates = <<>>
  /\ measured_concurrencies = <<>>
  /\ streams = <<>>
  /\ strategy_types = <<>>
  /\ ai = 0
  /\ measured_rates_u = <<>>
  /\ measured_concurrencies_u = <<>>
  /\ streams_u = <<>>
  /\ strategy_types_u = <<>>
  /\ combined_profile = JNull
  /\ out_benchmarks = <<>>
  /\ oi = 0
  /\ combined = JNull
  /\ exit_code = -1

\* the locals of merge_benchmark_files, untouched
MergeLocals ==
  <<files, fi, data, b, benchmarks, measured_rates, measured_concurrencies,
    streams, strategy_types, ai, measured_rates_u, measured_concurrencies_u,
    streams_u, strategy_types_u, combined_profile, out_benchmarks, oi, heap>>

\* ------------------------------------------------------------ main ------
\* main, up to the call of merge_benchmark_files
CheckDir ==
  /\ pc = "main"
  /\ IF ~fs.isdir
       THEN pc' = "exit" /\ exit_code' = 1
       ELSE pc' = "glob" /\ exit_code' = exit_code
  /\ UNCHANGED <<run, fs, input_dir, output, combined, MergeLocals>>

\* code-point order of the characters of the paths
CharOrder == << ".", "/", "a", "b", "d", "h", "i", "m", "o", "r" >>

CharRank(c) == CHOOSE i \in 1..Len(CharOrder) : CharOrder[i] = c

RECURSIVE PathLess(_, _)
\* p < q on str
PathLess(p, q) ==
  IF p = <<>> THEN q # <<>>
  ELSE IF q = <<>> THEN FALSE
  ELSE IF Head(p) = Head(q) THEN PathLess(Tail(p), Tail(q))
  ELSE CharRank(Head(p)) < CharRank(Head(q))

RECURSIVE InsertPath(_, _)
InsertPath(sortedSeq, x) ==
  IF sortedSeq = <<>> THEN <<x>>
  ELSE IF PathLess(x, Head(sortedSeq))
         THEN <<x>> \o sortedSeq
         ELSE <<Head(sortedSeq)>> \o InsertPath(Tail(sortedSeq), x)

RECURSIVE SortedPathsFrom(_, _)
SortedPathsFrom(seq, i) ==
  IF i = 0 THEN <<>> ELSE InsertPath(SortedPathsFrom(seq, i - 1), seq[i])

\* the listing as glob returned it, left in that order
unsorted_files(seq) == seq

\* sorted([...]) of line 44
sorted_files(seq) == SortedPathsFrom(seq, Len(seq))

\* glob(os.path.join(input_dir, '*')), filtered by os.path.isfile: '*' does
\* not match a name that starts with a dot
GlobFiles ==
  { join(input_dir, e.name) : e \in { x \in fs.entries : x.isfile /\ x.name[1] # "." } }

\* the orders in which glob may list a set of paths
Listings(S) ==
  { l \in [1..Cardinality(S) -> S] : \A i, j \in 1..Cardinality(S) : l[i] = l[j] => i = j }

\* the content of the file at path fp
FileDoc(fp) == (CHOOSE e \in fs.entries : join(input_dir, e.name) = fp).doc

\* -------------------------------------------- merge_benchmark_files -----
Crash ==
  /\ pc' = "crash"
  /\ exit_code' = 1

ListFiles ==
  /\ pc = "glob"
  /\ \E l \in Listings(GlobFiles) : files' = sorted_files(l)
  /\ fi' = 1
  /\ benchmarks' = <<>>
  /\ pc' = "scan"
  /\ UNCHANGED <<run, fs, input_dir, output, heap, data, b, measured_rates,
                 measured_concurrencies, streams, strategy_types, ai,
                 measured_rates_u, measured_concurrencies_u, streams_u,
                 strategy_types_u, combined_profile, out_benchmarks, oi,
                 combined, exit_code>>

\* json.load builds the record's args mapping as an object of its own
ParsedArgs(rec) ==
  IF IsDict(rec) /\ HasKey(rec, "args") /\ IsDict(DictGet(rec, "args", JNull))
    THEN <<DictGet(rec, "args", JNull)>>
    ELSE <<>>

\* b = load_first_benchmark(fp)
Load ==
  /\ pc = "scan"
  /\ fi <= Len(files)
  /\ data' = FileDoc(files[fi])
  /\ LET rec == load_first_benchmark(data')
     IN  /\ heap' = heap \o ParsedArgs(rec)
         /\ b' = IF ParsedArgs(rec) # <<>>
                   THEN DictSet(rec, "args", Ref(Len(heap) + 1))
                   ELSE rec
  /\ pc' = "loaded"
  /\ UNCHANGED <<run, fs, input_dir, output, files, fi, benchmarks,
                 measured_rates, measured_concurrencies, streams,
                 strategy_types, ai, measured_rates_u,
                 measured_concurrencies_u, streams_u, strategy_types_u,
                 combined_profile, out_benchmarks, oi, combined, exit_code>>

\* dict(x) raises: x is neither a mapping nor an empty str or list.
\* (Lists of pairs are outside the inputs of this model.)
DictRaises(x) == ~(IsDict(x) \/ (IsList(x) /\ x.l = <<>>) \/ (x.t = "str" /\ x.s = ""))

\* dict(x): a new mapping with the entries of x
dict(x) == IF IsDict(x) THEN x ELSE EmptyDict

\* the rest of the body of the loop over files
Collect ==
  /\ pc = "loaded"
  /\ IF IsNone(b)
       THEN /\ fi' = fi + 1
            /\ pc' = "scan"
            /\ UNCHANGED <<b, heap, benchmarks, exit_code>>
       ELSE IF DictRaises(b)
         THEN Crash /\ UNCHANGED <<b, heap, benchmarks, fi>>
         ELSE /\ heap' = Append(heap, DictSet(dict(b), "__source_file",
                                              JStr(basename(files[fi]))))
              /\ b' = Ref(Len(heap) + 1)
              /\ benchmarks' = Append(benchmarks, Ref(Len(heap) + 1))
              /\ fi' = fi + 1
              /\ pc' = "scan"
              /\ UNCHANGED exit_code
  /\ UNCHANGED <<run, fs, input_dir, output, files, data, measured_rates,
                 measured_concurrencies, streams, strategy_types, ai,
                 measured_rates_u, measured_concurrencies_u, streams_u,
                 strategy_types_u, combined_profile, out_benchmarks, oi,
                 combined>>

\* a guard on the accumulated list that never holds
NeverEmpty(bs) == FALSE

\* `if not benchmarks`
NoBenchmarks(bs) == bs = <<>>

\* the end of the loop over files, and lines 55-62
CheckEmpty ==
  /\ pc = "scan"
  /\ fi > Len(files)
  /\ IF NoBenchmarks(benchmarks)
       THEN /\ pc' = "exit"
            /\ exit_code' = 1
            /\ UNCHANGED <<measured_rates, measured_concurrencies, streams,
                           strategy_types, ai>>
       ELSE /\ measured_rates' = <<>>
            /\ measured_concurrencies' = <<>>
            /\ streams' = <<>>
            /\ strategy_types' = <<>>
            /\ ai' = 1
            /\ pc' = "aggregate"
            /\ UNCHANGED exit_code
  /\ UNCHANGED <<run, fs, input_dir, output, heap, files, fi, data, b,
                 benchmarks, measured_rates_u, measured_concurrencies_u,
                 streams_u, strategy_types_u, combined_profile,
                 out_benchmarks, oi, combined>>

\* `if x is not None: acc.append(x)`, a list appended as one element
AppendedWhole(acc, x) == IF IsNone(x) THEN acc ELSE Append(acc, x)

\* `if isinstance(x, list): acc.extend(x) elif x is not None: acc.append(x)`
Collected(acc, x) ==
  IF IsList(x) THEN acc \o x.l
  ELSE IF ~IsNone(x) THEN Append(acc, x)
  ELSE acc

\* one iteration of the loop of lines 64-92
Aggregate ==
  /\ pc = "aggregate"
  /\ ai <= Len(benchmarks)
  /\ LET rec == Deref(heap, benchmarks[ai])
         b_args == Deref(heap, DictGet(rec, "args", EmptyDict))
         b_profile == Deref(heap, DictGet(b_args, "profile", EmptyDict))
         s0 == Deref(heap, DictGet(b_profile, "streams", JNull))
         strategy == DictGet(b_args, "strategy", EmptyDict)
         s == IF IsNone(s0) THEN DictGet(strategy, "streams", JNull) ELSE s0
     IN  IF \/ ~IsDict(b_args)
            \/ ~IsDict(b_profile)
            \/ (IsNone(s0) /\ ~IsDict(strategy))
           THEN Crash /\ UNCHANGED <<measured_rates, measured_concurrencies,
                                     streams, strategy_types, ai, b>>
           ELSE /\ measured_rates' =
                     Collected(measured_rates,
                               Deref(heap, DictGet(b_profile, "measured_rates", JNull)))
                /\ measured_concurrencies' =
                     Collected(measured_concurrencies,
                               Deref(heap, DictGet(b_profile, "measured_concurrencies", JNull)))
                /\ streams' = Collected(streams, s)
                /\ strategy_types' =
                     Collected(strategy_types,
                               Deref(heap, DictGet(b_profile, "strategy_types", JNull)))
                /\ ai' = ai + 1
                /\ b' = benchmarks[ai]
                /\ UNCHANGED <<pc, exit_code>>
  /\ UNCHANGED <<run, fs, input_dir, output, heap, files, fi, data,
                 benchmarks, measured_rates_u, measured_concurrencies_u,
                 streams_u, strategy_types_u, combined_profile,
                 out_benchmarks, oi, combined>>

\* `if xs_u: combined_profile[field] = xs_u`; hp is <<heap, profile>>
WithField(hp, field, xs_u) ==
  IF xs_u = <<>> THEN hp
  ELSE << Append(hp[1], JList(xs_u)),
          DictSet(hp[2], field, Ref(Len(hp[1]) + 1)) >>

\* the value of line 124 or, when sorted raises, of line 126
SortedOrKept(xs_u) == IF SortRaises(xs_u) THEN xs_u ELSE sorted(xs_u)

\* lines 109-128: deduplicate, build the combined profile
Build ==
  /\ pc = "aggregate"
  /\ ai > Len(benchmarks)
  /\ measured_rates_u' = uniq(measured_rates)
  /\ measured_concurrencies_u' = uniq(measured_concurrencies)
  /\ streams_u' = uniq(streams)
  /\ strategy_types_u' = uniq(strategy_types)
  /\ LET p0 == JDict(<<"type_", "completed_strategies">>,
                     <<JStr("concurrent"), JInt(Len(benchmarks))>>)
         hp1 == WithField(<<heap, p0>>, "measured_rates", measured_rates_u')
         hp2 == WithField(hp1, "measured_concurrencies", measured_concurrencies_u')
         hp3 == WithField(hp2, "streams", SortedOrKept(streams_u'))
         hp4 == WithField(hp3, "strategy_types", strategy_types_u')
     IN  /\ heap' = Append(hp4[1], hp4[2])
         /\ combined_profile' = Ref(Len(hp4[1]) + 1)
  /\ out_benchmarks' = <<>>
  /\ oi' = 1
  /\ pc' = "inject"
  /\ UNCHANGED <<run, fs, input_dir, output, files, fi, data, b, benchmarks,
                 measured_rates, measured_concurrencies, streams,
                 strategy_types, ai, combined, exit_code>>

\* the args of an output record with every other key dropped
OnlyProfile(args, q) == JDict(<<"profile">>, <<q>>)

\* b_args['profile'] = q
InjectProfile(args, q) == DictSet(args, "profile", q)

\* one iteration of the loop of lines 132-136
Inject ==
  /\ pc = "inject"
  /\ oi <= Len(benchmarks)
  /\ LET S == Deref(heap, benchmarks[oi])
         aO == Len(heap) + 1
         Q == dict(Deref(heap, combined_profile))
     IN  /\ IF HasKey(S, "args")
              THEN \* setdefault returns the mapping the stored record holds
                   LET b_args == DictGet(S, "args", JNull)
                   IN  heap' = [Append(Append(heap, dict(S)), Q)
                                  EXCEPT ![b_args.n] = InjectProfile(@, Ref(aO + 1))]
              ELSE \* setdefault stores a new mapping in the copy
                   heap' = heap \o << DictSet(dict(S), "args", Ref(aO + 1)),
                                      InjectProfile(EmptyDict, Ref(aO + 2)),
                                      Q >>
         /\ out_benchmarks' = Append(out_benchmarks, Ref(aO))
  /\ b' = benchmarks[oi]
  /\ oi' = oi + 1
  /\ UNCHANGED <<pc, run, fs, input_dir, output, files, fi, data, benchmarks,
                 measured_rates, measured_concurrencies, streams,
                 strategy_types, ai, measured_rates_u,
                 measured_concurrencies_u, streams_u, strategy_types_u,
                 combined_profile, combined, exit_code>>

\* lines 138-141: tag every output record, return the document
TagReturn ==
  /\ pc = "inject"
  /\ oi > Len(benchmarks)
  /\ heap' = [a \in 1..Len(heap) |->
                IF \E i \in 1..Len(out_benchmarks) : out_benchmarks[i] = Ref(a)
                  THEN DictSet(heap[a], "__combined_from",
                               JStr(basename(rstrip(input_dir))))
                  ELSE heap[a]]
  /\ b' = IF out_benchmarks = <<>> THEN b ELSE out_benchmarks[Len(out_benchmarks)]
  /\ combined' = JDict(<<"benchmarks">>, <<JList(out_benchmarks)>>)
  /\ pc' = "returned"
  /\ UNCHANGED <<run, fs, input_dir, output, files, fi, data, benchmarks,
                 measured_rates, measured_concurrencies, streams,
                 strategy_types, ai, measured_rates_u,
                 measured_concurrencies_u, streams_u, strategy_types_u,
                 combined_profile, out_benchmarks, oi, exit_code>>

\* ---------------------------------------------------- main, the rest ----
\* lines 156-158
MakeDirs ==
  /\ pc = "returned"
  /\ fs' = IF dirname(output) # "" /\ ~fs.out_dir_exists
             THEN [fs EXCEPT !.out_dir_exists = TRUE, !.ops = Append(@, "makedirs")]
             ELSE fs
  /\ pc' = "write"
  /\ UNCHANGED <<run, input_dir, output, combined, exit_code, MergeLocals>>

\* lines 160-163: json.dump writes the value the document denotes
Write ==
  /\ pc = "write"
  /\ fs' = [fs EXCEPT !.out_file = Resolve(heap, combined), !.ops = Append(@, "write")]
  /\ pc' = "done"
  /\ exit_code' = 0
  /\ UNCHANGED <<run, input_dir, output, combined, MergeLocals>>

\* the tool is run again on a directory that holds only its own output
Remerge ==
  /\ pc = "done"
  /\ run < MaxRuns
  /\ run' = run + 1
  /\ fs' = [isdir |-> TRUE,
            entries |-> {[name |-> <<"m">>, isfile |-> TRUE, doc |-> fs.out_file]},
            out_dir_exists |-> fs.out_dir_exists,
            out_file |-> Absent,
            ops |-> <<>>]
  /\ pc' = "main"
  /\ heap' = <<>>
  /\ files' = <<>>
  /\ fi' = 0
  /\ data' = JNull
  /\ b' = JNull
  /\ benchmarks' = <<>>
  /\ measured_rates' = <<>>
  /\ measured_concurrencies' = <<>>
  /\ streams' = <<>>
  /\ strategy_types' = <<>>
  /\ ai' = 0
  /\ measured_rates_u' = <<>>
  /\ measured_concurrencies_u' = <<>>
  /\ streams_u' = <<>>
  /\ strategy_types_u' = <<>>
  /\ combined_profile' = JNull
  /\ out_benchmarks' = <<>>
  /\ oi' = 0
  /\ combined' = JNull
  /\ exit_code' = -1
  /\ UNCHANGED <<input_dir, output>>

Next ==
  \/ CheckDir
  \/ ListFiles
  \/ Load
  \/ Collect
  \/ CheckEmpty
  \/ Aggregate
  \/ Build
  \/ Inject
  \/ TagReturn
  \/ MakeDirs
  \/ Write
  \/ Remerge

Spec == Init /\ [][Next]_vars

\* =========================================================== claims =====
Returned == pc \in {"returned", "write", "done"}

Deduplicated == pc = "inject" \/ Returned

RECURSIVE StripFrom(_, _, _)
StripFrom(o, ks, i) ==
  IF i > Len(o.k) THEN EmptyDict
  ELSE IF o.k[i] \in ks THEN StripFrom(o, ks, i + 1)
  ELSE LET rest == StripFrom(o, ks, i + 1)
       IN  JDict(<<o.k[i]>> \o rest.k, <<o.l[i]>> \o rest.l)

\* the mapping o without the keys ks, the order of the others kept
Strip(o, ks) == StripFrom(o, ks, 1)

TagKeys == {"__source_file", "__combined_from"}

\* the directory entry whose base name is the str value tag
EntryOf(tag) == CHOOSE e \in fs.entries : JStr(JoinChars(e.name)) = tag

\* the record the source file of a stored or output record holds
SourceRecord(rec) == load_first_benchmark(EntryOf(DictGet(rec, "__source_file", JNull)).doc)

OutRecord(i) == Resolve(heap, out_benchmarks[i])

\* the args.profile value of a record, Absent when there is none
ArgsProfile(rec) ==
  IF IsDict(rec) /\ IsDict(DictGet(rec, "args", JNull))
    THEN DictGet(DictGet(rec, "args", JNull), "profile", Absent)
    ELSE Absent

\* the profile object of the i-th output record
ProfileRef(i) ==
  DictGet(Deref(heap, DictGet(Deref(heap, out_benchmarks[i]), "args", JNull)),
          "profile", JNull)

RECURSIVE DeepEq(_, _)
\* x == y in Python: numbers by value, mappings whatever the key order
DeepEq(x, y) ==
  IF IsNumber(x) /\ IsNumber(y) THEN x.n = y.n
  ELSE IF x.t # y.t THEN FALSE
  ELSE IF x.t = "str" THEN x.s = y.s
  ELSE IF x.t = "list"
    THEN Len(x.l) = Len(y.l) /\ \A i \in 1..Len(x.l) : DeepEq(x.l[i], y.l[i])
  ELSE IF x.t = "obj"
    THEN /\ Len(x.k) = Len(y.k)
         /\ \A i \in 1..Len(x.k) :
              HasKey(y, x.k[i]) /\ DeepEq(x.l[i], DictGet(y, x.k[i], JNull))
  ELSE TRUE

RECURSIVE FirstOccurrencesFrom(_, _)
FirstOccurrencesFrom(seq, i) ==
  IF i > Len(seq) THEN <<>>
  ELSE IF \E j \in 1..(i - 1) : DeepEq(seq[j], seq[i])
    THEN FirstOccurrencesFrom(seq, i + 1)
    ELSE <<seq[i]>> \o FirstOccurrencesFrom(seq, i + 1)

\* the first occurrence of every value of seq, in the order of seq
FirstOccurrences(seq) == FirstOccurrencesFrom(seq, 1)

\* every value of seq has a deep-equal element in kept
NoneLost(seq, kept) ==
  \A i \in 1..Len(seq) : \E m \in 1..Len(kept) : DeepEq(kept[m], seq[i])

TrackedFields == <<"measured_rates", "measured_concurrencies", "streams", "strategy_types">>

\* the four tracked fields of a profile, Absent for a missing one
Tracked(p) == [f \in 1..Len(TrackedFields) |-> DictGet(p, TrackedFields[f], Absent)]

\* C1: after merge_benchmark_files returns, any two distinct output records
\* have deep-equal args.profile values that share no object, so that no
\* in-place edit through one is seen through the other.
C1_ProfilesIndependent ==
  pc = "returned" =>
    \A i, j \in 1..Len(out_benchmarks) :
      i # j =>
        /\ Resolve(heap, ProfileRef(i)) = Resolve(heap, ProfileRef(j))
        /\ Reach(heap, ProfileRef(i)) \cap Reach(heap, ProfileRef(j)) = {}

\* the names of the files that yielded a record
YieldingNames ==
  { e.name : e \in { x \in fs.entries :
                       /\ x.isfile
                       /\ x.name[1] # "."
                       /\ ~IsNone(load_first_benchmark(x.doc)) } }

\* those names in ascending order
AscendingYielders ==
  CHOOSE l \in Listings(YieldingNames) :
    \A i, j \in 1..Len(l) : i < j => PathLess(l[i], l[j])

\* C2: when the merge returns, the output list is exactly the records of
\* the files that yielded one, one per file, in ascending file-name order;
\* skipped files leave no element.
C2_OutputIsYieldedInOrder ==
  Returned =>
    /\ Len(out_benchmarks) = Len(AscendingYielders)
    /\ \A i \in 1..Len(out_benchmarks) :
         LET e == CHOOSE x \in fs.entries : x.name = AscendingYielders[i]
         IN  /\ DictGet(OutRecord(i), "__source_file", JNull) = JStr(JoinChars(e.name))
             /\ Strip(OutRecord(i), TagKeys \cup {"args"})
                  = Strip(dict(load_first_benchmark(e.doc)), TagKeys \cup {"args"})

\* two files were read, one of them was skipped, one record came out
C2_Witness ==
  /\ Returned
  /\ Len(files) = 2
  /\ Len(out_benchmarks) = 1
  /\ DictGet(OutRecord(1), "__source_file", JNull) = JStr(basename(files[2]))

\* C3: each deduplicated list is the list of first occurrences, in scan
\* order, of the deep-equal classes of the collected values.
C3_FirstOccurrenceSurvives ==
  Deduplicated =>
    /\ measured_rates_u = FirstOccurrences(measured_rates)
    /\ measured_concurrencies_u = FirstOccurrences(measured_concurrencies)
    /\ streams_u = FirstOccurrences(streams)
    /\ strategy_types_u = FirstOccurrences(strategy_types)

\* C4: the record taken from a parsed document follows the fixed priority
\* benchmarks-list, type_ object, bare list, nothing.
C4_DecisionOrder ==
  (pc = "loaded" /\ data.t # "unparseable") =>
    LET r == Resolve(heap, b)
        bm == DictGet(data, "benchmarks", JNull)
        caseA == IsDict(data) /\ HasKey(data, "benchmarks") /\ IsList(bm) /\ bm.l # <<>>
        caseB == IsDict(data) /\ HasKey(data, "type_")
        caseC == IsList(data) /\ data.l # <<>>
    IN  /\ caseA => r = bm.l[1]
        /\ (~caseA /\ caseB) => r = data
        /\ (~caseA /\ ~caseB /\ caseC) => r = data.l[1]
        /\ (~caseA /\ ~caseB /\ ~caseC) => IsNone(r)

\* an object with both `type_` and a non-empty `benchmarks` list gave the
\* first element of the list
C4_Witness ==
  /\ pc = "loaded"
  /\ IsDict(data)
  /\ HasKey(data, "type_")
  /\ IsList(DictGet(data, "benchmarks", JNull))
  /\ DictGet(data, "benchmarks", JNull).l # <<>>
  /\ Resolve(heap, b) = DictGet(data, "benchmarks", JNull).l[1]
  /\ Resolve(heap, b) # data

\* C5: a file whose document has no accepted shape, or yields an empty or
\* absent record, adds nothing to the accumulated list and the scan goes
\* on; a run ends fatally only for a bad input directory or for no records.
C5_SkipAndContinue ==
  /\ \A k \in 1..Len(files) :
       (k < fi /\ \/ IsNone(load_first_benchmark(FileDoc(files[k])))
                  \/ load_first_benchmark(FileDoc(files[k])) = EmptyDict)
         => ~ \E i \in 1..Len(benchmarks) :
                DictGet(Deref(heap, benchmarks[i]), "__source_file", JNull)
                  = JStr(basename(files[k]))
  /\ pc # "crash"
  /\ pc = "exit" => (~fs.isdir \/ benchmarks = <<>>)

\* C6: the file system is written only once the directory check, the scan,
\* the aggregation and the re-injection are over; a run with a bad input
\* directory or with zero records ends with a non-zero outcome and has
\* neither created the parent directory nor written the output file.
C6_WriteOnlyOnSuccess ==
  /\ pc = "exit" => (exit_code # 0 /\ fs.ops = <<>> /\ fs.out_file = Absent)
  /\ (~fs.isdir /\ pc # "main") => pc = "exit"
  /\ (fs.isdir /\ benchmarks = <<>> /\ pc \notin {"main", "glob", "scan", "loaded"})
       => (pc \in {"exit", "crash"} /\ exit_code # 0)
  /\ (fs.ops # <<>> \/ fs.out_file # Absent) =>
       /\ fs.isdir
       /\ pc \in {"write", "done"}
       /\ benchmarks # <<>>
       /\ Len(out_benchmarks) = Len(benchmarks)
       /\ \A i \in 1..Len(out_benchmarks) :
            /\ HasKey(OutRecord(i), "__combined_from")
            /\ ArgsProfile(OutRecord(i)) = Resolve(heap, combined_profile)

\* every file was scanned, none gave a record: the run stopped and neither
\* the missing parent directory nor the output file was created
C6_Witness ==
  /\ pc = "exit"
  /\ fs.isdir
  /\ files # <<>>
  /\ fi > Len(files)
  /\ dirname(output) # ""
  /\ ~fs.out_dir_exists
  /\ fs.out_file = Absent

\* the combined profile of the run whose output is the only input file
PriorProfile ==
  LET e == CHOOSE x \in fs.entries : TRUE
  IN  ArgsProfile(DictGet(e.doc, "benchmarks", JNull).l[1])

\* C7: merging the tool's own output re-derives the same four tracked
\* fields, present or absent alike.
C7_RemergeIdempotent ==
  (run > 1 /\ Deduplicated) =>
    Tracked(Resolve(heap, combined_profile)) = Tracked(PriorProfile)

\* C7, amended: merging the tool's own output re-derives the same
\* measured_rates, measured_concurrencies and strategy_types, and the same
\* streams whenever the prior combined profile has a streams field.
C7_RemergeIdempotentGivenStreams ==
  (run > 1 /\ Deduplicated) =>
    \A f \in 1..Len(TrackedFields) :
      (TrackedFields[f] # "streams" \/ HasKey(PriorProfile, "streams"))
        => Tracked(Resolve(heap, combined_profile))[f] = Tracked(PriorProfile)[f]

\* a second run over an output whose profile held three deduplicated rates
\* and two sorted stream counts re-derived both
C7_Witness ==
  /\ run = 2
  /\ Deduplicated
  /\ HasKey(PriorProfile, "streams")
  /\ Len(measured_rates_u) = 3
  /\ Len(streams_u) = 2
  /\ Tracked(Resolve(heap, combined_profile)) = Tracked(PriorProfile)

\* C8: an output record differs from the record of its source file only in
\* args.profile and in the two tag keys; the other keys of args are kept.
C8_OtherFieldsPreserved ==
  Returned =>
    \A i \in 1..Len(out_benchmarks) :
      LET o == OutRecord(i)
          src == dict(SourceRecord(o))
      IN  /\ Strip(o, TagKeys \cup {"args"}) = Strip(src, TagKeys \cup {"args"})
          /\ HasKey(o, "args")
          /\ Strip(DictGet(o, "args", JNull), {"profile"})
               = Strip(DictGet(src, "args", EmptyDict), {"profile"})

\* an output record whose source had a strategy and a strategy_index next
\* to a profile that the merge replaced
C8_Witness ==
  /\ Returned
  /\ \E i \in 1..Len(out_benchmarks) :
       LET o == OutRecord(i)
           src == dict(SourceRecord(o))
       IN  /\ HasKey(DictGet(src, "args", EmptyDict), "strategy")
           /\ HasKey(DictGet(src, "args", EmptyDict), "strategy_index")
           /\ HasKey(DictGet(o, "args", EmptyDict), "strategy_index")
           /\ ArgsProfile(src) # Absent
           /\ ArgsProfile(o) # ArgsProfile(src)

\* C9: re-injection leaves every stored record with the args.profile its
\* source file gave it.
C9_StoredRecordsUntouched ==
  (pc = "inject" \/ Returned) =>
    \A i \in 1..Len(benchmarks) :
      LET rec == Resolve(heap, benchmarks[i])
      IN  ArgsProfile(rec) = ArgsProfile(SourceRecord(rec))

\* C10: deduplication loses no value: every collected value has a
\* deep-equal element in the deduplicated list.
C10_NoDistinctValueLost ==
  Deduplicated =>
    /\ NoneLost(measured_rates, measured_rates_u)
    /\ NoneLost(measured_concurrencies, measured_concurrencies_u)
    /\ NoneLost(streams, streams_u)
    /\ NoneLost(strategy_types, strategy_types_u)

====
